---- MODULE Spec2Model ----
(***************************************************************************)
(* Model of druid's text Editor (druid/src/text/editor.rs) and of the      *)
(* TextBox2 widget that hosts it (druid/src/widget/textbox2.rs).           *)
(*                                                                         *)
(* The buffer T is a sequence of bytes.  "a", "b", "c" and "\n" are ASCII  *)
(* characters of one byte; "E1" "E2" are the lead and the continuation     *)
(* byte of one two-byte character, so that a grapheme is not a fixed byte  *)
(* count and an offset may fall inside a character.                        *)
(***************************************************************************)
EXTENDS Integers, Sequences, FiniteSets, TLC

VARIABLES
    data,        \* the application's buffer value T
    text,        \* layout.text(): the snapshot cached by the TextLayout
    selection,   \* Editor.selection
    multi_line,  \* Editor.multi_line
    panicked,    \* a call aborted; the process is gone
    put,         \* what the last call handed to the clipboard's put_string
    repaint,     \* the last call ran ctx.request_paint()
    last,        \* the last call: entry point, EditAction, staleness
    own_edit,    \* an edit of the editor changed the buffer and neither
                 \* update nor set_text has run since
    phase,       \* where the host is in its event / update / paint pass
    old_data,    \* the buffer value of the host's last update pass
    active,      \* ctx.is_active()
    cursor_on,   \* TextBox2.cursor_on
    cursor_timer,\* TextBox2.cursor_timer
    issued,      \* number of tokens request_timer has handed out
    event        \* the event the host delivered in the current pass

editor == <<data, text, selection, multi_line, panicked, put, last, own_edit>>

widget == <<phase, old_data, active, cursor_on, cursor_timer, issued, event>>

vars == <<editor, repaint, widget>>

\* ------------------------------------------------------------------ bounds
\* Longest buffer the model lets the edits and the application build.
MaxLen == 3

\* Number of tokens the timer service hands out in one run.
MaxTimers == 2

\* TimerToken::INVALID
INVALID == 0

\* ------------------------------------------------------- small helpers
Min(a, b) == IF a <= b THEN a ELSE b

Max(a, b) == IF a >= b THEN a ELSE b

None == <<>>

Some(x) == <<x>>

\* Values the rest of the application may store into the buffer.
ExternalValues == {<<>>, <<"a">>, <<"E1", "E2">>, <<"a", "E1", "E2">>}

\* Texts carried by Insert.
InsertTexts == {<<"a">>, <<"E1", "E2">>}

\* Texts carried by Insert in the scripted runs.
TraceTexts ==
    {<<"a", "b", "c">>, <<"a", "\n", "b">>, <<"\n">>, <<"a", "b", "\n", "c", "d">>}

\* Texts carried by Paste in the scripted runs.
TracePasteTexts == {<<"\n", "a">>, <<"a", "\n">>}

\* Texts carried by Paste.
PasteTexts == {<<"E1", "E2">>}

Movements == {"Left", "Right", "StartOfDocument", "EndOfDocument"}

\* ------------------------------------------------ buffer value contract
\* str::is_char_boundary: an offset of the buffer that is not inside a
\* character.
is_char_boundary(s, i) ==
    /\ i \in 0..Len(s)
    /\ (i = Len(s) \/ s[i + 1] # "E2")

\* EditableText::edit: replace the bytes [lo, hi) of s by t.
edit(s, lo, hi, t) == SubSeq(s, 1, lo) \o t \o SubSeq(s, hi + 1, Len(s))

\* String::replace_range accepts a range only when both ends are character
\* boundaries of the buffer, in order.
edit_in_range(s, lo, hi) ==
    /\ lo <= hi
    /\ is_char_boundary(s, lo)
    /\ is_char_boundary(s, hi)

\* EditableText::slice: the text of [lo, hi), absent when the range is not
\* a range of character boundaries of s.
slice(s, lo, hi) ==
    IF edit_in_range(s, lo, hi) THEN Some(SubSeq(s, lo + 1, hi)) ELSE None

\* EditableText::prev_grapheme_offset: the boundary before `from`, absent
\* at the start of the buffer.
prev_grapheme_offset(s, from) ==
    IF from = 0 THEN None
    ELSE Some(CHOOSE j \in 0..(from - 1) :
                 /\ is_char_boundary(s, j)
                 /\ \A k \in (j + 1)..(from - 1) : ~is_char_boundary(s, k))

\* EditableText::next_grapheme_offset: the boundary after `from`, absent
\* at the end of the buffer.
next_grapheme_offset(s, from) ==
    IF from = Len(s) THEN None
    ELSE Some(CHOOSE j \in (from + 1)..Len(s) :
                 /\ is_char_boundary(s, j)
                 /\ \A k \in (from + 1)..(j - 1) : ~is_char_boundary(s, k))

unwrap_or(opt, d) == IF opt = None THEN d ELSE opt[1]

\* ------------------------------------------------------------ Selection
caret(o) == [anchor |-> o, end |-> o]

is_caret(s) == s.anchor = s.end

sel_min(s) == Min(s.anchor, s.end)

sel_max(s) == Max(s.anchor, s.end)

\* Selection::constrain_to
constrain_to(s, t) ==
    [anchor |-> Min(s.anchor, Len(t)), end |-> Min(s.end, Len(t))]

\* ------------------------------------------------------ Movement resolver
\* The grapheme queries behind Left and Right are defined only on character
\* boundaries of the buffer; on any other offset the call aborts.
movement_aborts(m, s, t, modify) ==
    /\ m \in {"Left", "Right"}
    /\ (is_caret(s) \/ modify)
    /\ ~is_char_boundary(t, s.end)

movement_offset(m, s, t, modify) ==
    CASE m = "Left" ->
            IF is_caret(s) \/ modify
            THEN unwrap_or(prev_grapheme_offset(t, s.end), 0)
            ELSE sel_min(s)
      [] m = "Right" ->
            IF is_caret(s) \/ modify
            THEN unwrap_or(next_grapheme_offset(t, s.end), s.end)
            ELSE sel_max(s)
      [] m = "StartOfDocument" -> 0
      [] m = "EndOfDocument" -> Len(t)

\* movement(m, s, text, modify)
movement(m, s, t, modify) ==
    LET offset == movement_offset(m, s, t, modify)
    IN  [anchor |-> IF modify THEN s.anchor ELSE offset, end |-> offset]

\* offset_for_delete_backwards(region, text)
offset_for_delete_backwards(s, t) ==
    IF ~is_caret(s) THEN sel_min(s)
    ELSE unwrap_or(prev_grapheme_offset(t, s.end), 0)

\* -------------------------------------------------------------- EditAction
Action(ty, ch, mv, col, sh) ==
    [type |-> ty, chars |-> ch, mvmt |-> mv, column |-> col, shift |-> sh]

Plain(ty) == Action(ty, <<>>, "Left", 0, FALSE)

WithText(ty, ch) == Action(ty, ch, "Left", 0, FALSE)

WithMovement(ty, mv) == Action(ty, <<>>, mv, 0, FALSE)

MouseAction(ty, col, sh) == Action(ty, <<>>, "Left", col, sh)

\* The actions a key binding or a PERFORM_EDIT command can carry.
KeyActions ==
    {Plain("Backspace"), Plain("Delete"), Plain("SelectAll")}
        \cup {WithText("Insert", ch) : ch \in InsertTexts}
        \cup {WithMovement(ty, mv) :
                 ty \in {"Move", "ModifySelection", "JumpDelete", "JumpBackspace"},
                 mv \in Movements}

\* The actions of the scripted runs.
TraceActions ==
    {Plain("Backspace"), WithMovement("Move", "Left")}
        \cup {WithText("Insert", ch) : ch \in TraceTexts}

\* -------------------------------------------------------------- Editor
\* Outcome of one call on (data, selection): the buffer, the Selection,
\* whether the call aborted in data.edit or in a grapheme query, and the
\* range the call handed to data.edit (empty when it handed none).
Outcome(d, s, p, r) == [data |-> d, selection |-> s, panicked |-> p, range |-> r]

\* data.edit(lo..hi, t) followed by self.selection = newsel
EditThen(d, s, lo, hi, t, newsel) ==
    IF edit_in_range(d, lo, hi)
    THEN Outcome(edit(d, lo, hi, t), newsel, FALSE, <<lo, hi>>)
    ELSE Outcome(d, s, TRUE, <<lo, hi>>)

\* data_is_stale taking an editor without cached text for fresh.
data_is_stale_unseeded_fresh(txt, d) == IF txt = None THEN FALSE ELSE txt[1] # d

\* Editor::data_is_stale
data_is_stale(txt, d) == IF txt = None THEN TRUE ELSE txt[1] # d

\* The first line taken with its line break.
first_line_keeps_break(t) ==
    IF \E i \in 1..Len(t) : t[i] = "\n"
    THEN SubSeq(t, 1, CHOOSE i \in 1..Len(t) :
                         t[i] = "\n" /\ \A j \in 1..(i - 1) : t[j] # "\n")
    ELSE t

\* text.split('\n').next().unwrap_or("")
first_line(t) ==
    IF \E i \in 1..Len(t) : t[i] = "\n"
    THEN SubSeq(t, 1, (CHOOSE i \in 1..Len(t) :
                          t[i] = "\n" /\ \A j \in 1..(i - 1) : t[j] # "\n") - 1)
    ELSE t

\* insert with the caret computed from the anchor instead of the start of
\* the range.
insert_from_anchor(chars, d, s, ml) ==
    LET t == IF ml THEN chars ELSE first_line(chars)
    IN  EditThen(d, s, sel_min(s), sel_max(s), t, caret(s.anchor + Len(t)))

\* Editor::insert
insert(chars, d, s, ml) ==
    LET t == IF ml THEN chars ELSE first_line(chars)
    IN  EditThen(d, s, sel_min(s), sel_max(s), t, caret(sel_min(s) + Len(t)))

\* delete_backward removing one byte before the caret instead of one
\* grapheme cluster.
delete_backward_one_byte(d, s) ==
    IF is_caret(s)
    THEN IF ~is_char_boundary(d, s.end)
         THEN Outcome(d, s, TRUE, <<>>)
         ELSE LET del_end == s.end
                  del_start == Max(s.end - 1, 0)
              IN  Outcome(edit(d, del_start, del_end, <<>>), caret(del_start),
                          FALSE, <<del_start, del_end>>)
    ELSE EditThen(d, s, sel_min(s), sel_max(s), <<>>, caret(sel_min(s)))

\* Editor::delete_backward
delete_backward(d, s) ==
    IF is_caret(s)
    THEN IF ~is_char_boundary(d, s.end)
         THEN Outcome(d, s, TRUE, <<>>)
         ELSE LET del_end == s.end
                  del_start == offset_for_delete_backwards(s, d)
              IN  EditThen(d, s, del_start, del_end, <<>>, caret(del_start))
    ELSE EditThen(d, s, sel_min(s), sel_max(s), <<>>, caret(sel_min(s)))

\* Editor::delete_forward
delete_forward(d, s) ==
    IF is_caret(s) /\ movement_aborts("Right", s, d, FALSE)
    THEN Outcome(d, s, TRUE, <<>>)
    ELSE LET to_delete == IF is_caret(s) THEN movement("Right", s, d, FALSE) ELSE s
         IN  EditThen(d, s, sel_min(to_delete), sel_max(to_delete), <<>>,
                      caret(sel_min(s)))

\* The JumpDelete arm resolving the movement without extension.
jump_delete_no_extension(mv, d, s) ==
    IF is_caret(s) /\ movement_aborts(mv, s, d, FALSE)
    THEN Outcome(d, s, TRUE, <<>>)
    ELSE LET to_delete == IF is_caret(s) THEN movement(mv, s, d, FALSE) ELSE s
         IN  EditThen(d, s, sel_min(to_delete), sel_max(to_delete), <<>>,
                      caret(sel_min(to_delete)))

\* The JumpDelete / JumpBackspace arm of Editor::do_edit
jump_delete(mv, d, s) ==
    IF is_caret(s) /\ movement_aborts(mv, s, d, TRUE)
    THEN Outcome(d, s, TRUE, <<>>)
    ELSE LET to_delete == IF is_caret(s) THEN movement(mv, s, d, TRUE) ELSE s
         IN  EditThen(d, s, sel_min(to_delete), sel_max(to_delete), <<>>,
                      caret(sel_min(to_delete)))

\* The Move / ModifySelection arms of Editor::do_edit
move_selection(mv, d, s, modify) ==
    IF movement_aborts(mv, s, d, modify)
    THEN Outcome(d, s, TRUE, <<>>)
    ELSE Outcome(d, movement(mv, s, d, modify), FALSE, <<>>)

\* The match of do_edit with the Drag arm checking the shift modifier as
\* the Click arm does.
dispatch_drag_checks_shift(e, d, s, ml) ==
    CASE e.type \in {"Insert", "Paste"} -> insert(e.chars, d, s, ml)
      [] e.type = "Backspace" -> delete_backward(d, s)
      [] e.type = "Delete" -> delete_forward(d, s)
      [] e.type \in {"JumpDelete", "JumpBackspace"} -> jump_delete(e.mvmt, d, s)
      [] e.type = "Move" -> move_selection(e.mvmt, d, s, FALSE)
      [] e.type = "ModifySelection" -> move_selection(e.mvmt, d, s, TRUE)
      [] e.type \in {"Click", "Drag"} ->
            IF e.shift
            THEN Outcome(d, [s EXCEPT !.end = e.column], FALSE, <<>>)
            ELSE Outcome(d, caret(e.column), FALSE, <<>>)
      [] OTHER -> Outcome(d, s, FALSE, <<>>)

\* The match of do_edit with the Move arm extending the selection.
dispatch_move_extends(e, d, s, ml) ==
    CASE e.type \in {"Insert", "Paste"} -> insert(e.chars, d, s, ml)
      [] e.type = "Backspace" -> delete_backward(d, s)
      [] e.type = "Delete" -> delete_forward(d, s)
      [] e.type \in {"JumpDelete", "JumpBackspace"} -> jump_delete(e.mvmt, d, s)
      [] e.type \in {"Move", "ModifySelection"} -> move_selection(e.mvmt, d, s, TRUE)
      [] OTHER -> Outcome(d, s, FALSE, <<>>)

\* The match of Editor::do_edit, taken when the data is not stale.
dispatch(e, d, s, ml) ==
    CASE e.type \in {"Insert", "Paste"} -> insert(e.chars, d, s, ml)
      [] e.type = "Backspace" -> delete_backward(d, s)
      [] e.type = "Delete" -> delete_forward(d, s)
      [] e.type \in {"JumpDelete", "JumpBackspace"} -> jump_delete(e.mvmt, d, s)
      [] e.type = "Move" -> move_selection(e.mvmt, d, s, FALSE)
      [] e.type = "ModifySelection" -> move_selection(e.mvmt, d, s, TRUE)
      [] e.type = "Click" ->
            IF e.shift
            THEN Outcome(d, [s EXCEPT !.end = e.column], FALSE, <<>>)
            ELSE Outcome(d, caret(e.column), FALSE, <<>>)
      [] e.type = "Drag" -> Outcome(d, [s EXCEPT !.end = e.column], FALSE, <<>>)
      [] OTHER -> Outcome(d, s, FALSE, <<>>)

\* do_edit without the staleness check.
do_edit_unchecked(e, txt, d, s, ml) == dispatch(e, d, s, ml)

\* Editor::do_edit
do_edit(e, txt, d, s, ml) ==
    IF data_is_stale(txt, d)
    THEN Outcome(d, s, FALSE, <<>>)
    ELSE dispatch(e, d, s, ml)

\* set_clipboard without the is_empty test.
set_clipboard_even_empty(txt, s) ==
    IF txt = None THEN None ELSE slice(txt[1], sel_min(s), sel_max(s))

\* Editor::set_clipboard: the string handed to put_string, if any.
set_clipboard(txt, s) ==
    IF txt = None THEN None
    ELSE LET t == slice(txt[1], sel_min(s), sel_max(s))
         IN  IF t # None /\ t[1] # <<>> THEN t ELSE None

\* TextLayout::text_position_for_point: the offsets of the cached text a
\* point can resolve to.
text_positions(txt) ==
    IF txt = None THEN {0}
    ELSE {i \in 0..Len(txt[1]) : is_char_boundary(txt[1], i)}

\* BasicTextInput::handle_event: the key bindings.
Keys == {"Backspace", "Escape"}

handle_event(k) ==
    CASE k = "Backspace" -> Some(Plain("Backspace"))
      [] OTHER -> None

\* ------------------------------------------------------------ the calls
NoAction == Plain("None")

\* What `last` keeps of a call: the entry point, the EditAction it
\* dispatched, whether it found the data stale, the shape of the Selection
\* it found and, for update, what needs_rebuild_after_update answered.
shape(s) ==
    IF s.anchor = s.end THEN "caret"
    ELSE IF s.anchor < s.end THEN "forward" ELSE "backward"

Call(op, e, stale, shp) ==
    [op |-> op, edit |-> e, stale |-> stale, shape |-> shp, rebuild |-> FALSE]

\* What `event` keeps of an event: its kind, the token of a Timer event
\* and the focus flag of a MouseDown event.
Delivered(name, token, focus) == [name |-> name, token |-> token, focus |-> focus]

Init ==
    /\ data \in ExternalValues
    /\ text = None
    /\ selection = caret(0)
    /\ multi_line \in BOOLEAN
    /\ panicked = FALSE
    /\ put = None
    /\ repaint = FALSE
    /\ last = Call("new", NoAction, TRUE, "caret")
    /\ own_edit = FALSE
    /\ phase = "new"
    /\ old_data = <<>>
    /\ active = FALSE
    /\ cursor_on = FALSE
    /\ cursor_timer = INVALID
    /\ issued = 0
    /\ event = Delivered("none", INVALID, FALSE)

\* do_edit storing the edited buffer into the layout cache.
DispatchRefreshesText(op, e) ==
    LET out == do_edit(e, text, data, selection, multi_line)
    IN  /\ ~panicked
        /\ Len(out.data) <= MaxLen
        /\ data' = out.data
        /\ selection' = out.selection
        /\ panicked' = out.panicked
        /\ put' = None
        /\ last' = Call(op, e, data_is_stale(text, data), shape(selection))
        /\ own_edit' = (own_edit \/ out.data # data)
        /\ text' = IF text = None THEN text ELSE Some(out.data)
        /\ UNCHANGED multi_line

\* One call of do_edit with `e`, entered through `op`.
Dispatch(op, e) ==
    LET out == do_edit(e, text, data, selection, multi_line)
    IN  /\ ~panicked
        /\ Len(out.data) <= MaxLen
        /\ data' = out.data
        /\ selection' = out.selection
        /\ panicked' = out.panicked
        /\ put' = None
        /\ last' = Call(op, e, data_is_stale(text, data), shape(selection))
        /\ own_edit' = (own_edit \/ out.data # data)
        /\ UNCHANGED <<text, multi_line>>

\* Editor::set_text, as LifeCycle::WidgetAdded calls it: once, with the
\* buffer, when the widget is attached.
SetText ==
    /\ ~panicked
    /\ text = None
    /\ text' = Some(data)
    /\ put' = None
    /\ last' = Call("set_text", NoAction, data_is_stale(text, data), shape(selection))
    /\ own_edit' = FALSE
    /\ UNCHANGED <<data, selection, multi_line, panicked>>

\* The rest of the application stores the value the editor last saw back
\* into the buffer (it rejects or undoes the change).
ExternalRevert ==
    /\ ~panicked
    /\ text # None
    /\ text[1] # data
    /\ data' = text[1]
    /\ put' = None
    /\ last' = Call("mutate", NoAction, TRUE, shape(selection))
    /\ UNCHANGED <<text, selection, multi_line, panicked, own_edit>>

\* The rest of the application stores another value into the buffer.
ExternalMutation(v) ==
    /\ ~panicked
    /\ v # data
    /\ data' = v
    /\ put' = None
    /\ last' = Call("mutate", NoAction, TRUE, shape(selection))
    /\ UNCHANGED <<text, selection, multi_line, panicked, own_edit>>

\* update re-clamping the Selection in both branches.
UpdateAlwaysClamps(needs_rebuild) ==
    LET stale == data_is_stale(text, data)
    IN  /\ ~panicked
        /\ text' = IF stale THEN Some(data) ELSE text
        /\ selection' = constrain_to(selection, data)
        /\ put' = None
        /\ repaint' = (stale \/ needs_rebuild)
        /\ last' = [Call("update", NoAction, stale, shape(selection))
                       EXCEPT !.rebuild = needs_rebuild]
        /\ own_edit' = FALSE
        /\ UNCHANGED <<data, multi_line, panicked>>

\* update re-clamping the Selection without storing the new text.
UpdateKeepsText(needs_rebuild) ==
    LET stale == data_is_stale(text, data)
    IN  /\ ~panicked
        /\ text' = IF text = None THEN Some(data) ELSE text
        /\ selection' = IF stale THEN constrain_to(selection, data) ELSE selection
        /\ put' = None
        /\ repaint' = (stale \/ needs_rebuild)
        /\ last' = [Call("update", NoAction, stale, shape(selection))
                       EXCEPT !.rebuild = needs_rebuild]
        /\ own_edit' = FALSE
        /\ UNCHANGED <<data, multi_line, panicked>>

\* Editor::update(ctx, new_data, env) with new_data the current buffer;
\* needs_rebuild is layout.needs_rebuild_after_update(ctx).
Update(needs_rebuild) ==
    LET stale == data_is_stale(text, data)
    IN  /\ ~panicked
        /\ text' = IF stale THEN Some(data) ELSE text
        /\ selection' = IF stale THEN constrain_to(selection, data) ELSE selection
        /\ put' = None
        /\ repaint' = (stale \/ needs_rebuild)
        /\ last' = [Call("update", NoAction, stale, shape(selection))
                       EXCEPT !.rebuild = needs_rebuild]
        /\ own_edit' = FALSE
        /\ UNCHANGED <<data, multi_line, panicked>>

\* Editor::do_edit called directly (the PERFORM_EDIT command)
DoEdit(e) == Dispatch("do_edit", e)

\* Editor::click
Click(col, shift) == Dispatch("click", MouseAction("Click", col, shift))

\* Editor::drag
Drag(col, shift) == Dispatch("drag", MouseAction("Drag", col, shift))

\* Editor::key
Key(k) ==
    IF handle_event(k) # None
    THEN Dispatch("key", handle_event(k)[1])
    ELSE /\ ~panicked
         /\ put' = None
         /\ last' = Call("key", NoAction, data_is_stale(text, data), shape(selection))
         /\ UNCHANGED <<data, text, selection, multi_line, panicked, own_edit>>

\* Editor::paste
Paste(t) == Dispatch("paste", WithText("Paste", t))

\* Editor::copy
Copy ==
    LET stale == data_is_stale(text, data)
    IN  /\ ~panicked
        /\ put' = IF stale THEN None ELSE set_clipboard(text, selection)
        /\ last' = Call("copy", NoAction, stale, shape(selection))
        /\ UNCHANGED <<data, text, selection, multi_line, panicked, own_edit>>

\* cut deleting before it copies.
CutDeletesFirst ==
    LET stale == data_is_stale(text, data)
        out == IF stale THEN Outcome(data, selection, FALSE, <<>>)
               ELSE delete_backward(data, selection)
    IN  /\ ~panicked
        /\ data' = out.data
        /\ selection' = out.selection
        /\ panicked' = out.panicked
        /\ put' = IF stale THEN None ELSE set_clipboard(text, out.selection)
        /\ last' = Call("cut", NoAction, stale, shape(selection))
        /\ own_edit' = (own_edit \/ out.data # data)
        /\ UNCHANGED <<text, multi_line>>

\* Editor::cut
Cut ==
    LET stale == data_is_stale(text, data)
        out == IF stale THEN Outcome(data, selection, FALSE, <<>>)
               ELSE delete_backward(data, selection)
    IN  /\ ~panicked
        /\ data' = out.data
        /\ selection' = out.selection
        /\ panicked' = out.panicked
        /\ put' = IF stale THEN None ELSE set_clipboard(text, selection)
        /\ last' = Call("cut", NoAction, stale, shape(selection))
        /\ own_edit' = (own_edit \/ out.data # data)
        /\ UNCHANGED <<text, multi_line>>

\* A call outside the widget: no repaint request, the widget untouched.
Quiet == repaint' = FALSE /\ UNCHANGED widget

Next ==
    \/ SetText /\ Quiet
    \/ (\E v \in ExternalValues : ExternalMutation(v)) /\ Quiet
    \/ ExternalRevert /\ Quiet
    \/ (\E r \in BOOLEAN : Update(r)) /\ UNCHANGED widget
    \/ (\E e \in KeyActions : DoEdit(e)) /\ Quiet
    \/ (\E c \in text_positions(text), sh \in BOOLEAN : Click(c, sh)) /\ Quiet
    \/ (\E c \in text_positions(text), sh \in BOOLEAN : Drag(c, sh)) /\ Quiet
    \/ (\E k \in Keys : Key(k)) /\ Quiet
    \/ (\E t \in PasteTexts : Paste(t)) /\ Quiet
    \/ Copy /\ Quiet
    \/ Cut /\ Quiet

\* Any sequence of Editor calls and of stores by the application.
Spec == Init /\ [][Next]_vars

\* A script of edits on an editor seeded with the empty buffer, with or
\* without update between them.
InitTrace == Init /\ data = <<>>

NextTrace ==
    \/ SetText /\ Quiet
    \/ (\E r \in BOOLEAN : Update(r)) /\ UNCHANGED widget
    \/ (\E e \in TraceActions : DoEdit(e)) /\ Quiet
    \/ (\E t \in TracePasteTexts : Paste(t)) /\ Quiet

SpecTrace == InitTrace /\ [][NextTrace]_vars

\* ------------------------------------------------------------ TextBox2
\* Texts, actions and values of the runs of the widget.
HostActions ==
    {WithText("Insert", <<"a">>), Plain("Delete"),
     WithMovement("ModifySelection", "Left")}

HostKeys == {"Backspace", "Tab", "Escape"}

HostValues == {<<>>, <<"a">>}

\* The host delivers events between its passes.
Ready == ~panicked /\ phase \in {"idle", "painted"}

\* The event has been handled; the update pass is due.
Handled(ev) == phase' = "dirty" /\ event' = ev /\ UNCHANGED old_data

\* An event that carries neither a token nor a focus flag.
Simple(name) == Delivered(name, INVALID, FALSE)

KeepEditor == UNCHANGED editor

KeepBlink == UNCHANGED <<cursor_on, cursor_timer, issued>>

\* TextBox2::reset_cursor_blink
reset_cursor_blink ==
    /\ cursor_on' = TRUE
    /\ cursor_timer' = issued + 1
    /\ issued' = issued + 1

\* LifeCycle::WidgetAdded
WidgetAdded ==
    /\ phase = "new"
    /\ SetText
    /\ phase' = "idle"
    /\ old_data' = data
    /\ event' = Simple("WidgetAdded")
    /\ UNCHANGED <<repaint, active, cursor_on, cursor_timer, issued>>

\* Event::MouseDown
MouseDown(focus, col, shift) ==
    /\ Ready
    /\ active' = TRUE
    /\ IF ~focus
       THEN issued < MaxTimers /\ reset_cursor_blink /\ Click(col, shift)
       ELSE KeepBlink /\ KeepEditor
    /\ repaint' = TRUE
    /\ Handled(Delivered("MouseDown", INVALID, focus))

\* MouseMove dragging whether or not the widget is active.
MouseMoveWhenInactive(col, shift) ==
    /\ Ready
    /\ Drag(col, shift)
    /\ repaint' = TRUE
    /\ Handled(Simple("MouseMove"))
    /\ UNCHANGED active
    /\ KeepBlink

\* Event::MouseMove
MouseMove(col, shift) ==
    /\ Ready
    /\ IF active
       THEN Drag(col, shift) /\ repaint' = TRUE
       ELSE KeepEditor /\ repaint' = FALSE
    /\ Handled(Simple("MouseMove"))
    /\ UNCHANGED active
    /\ KeepBlink

\* Event::MouseUp
MouseUp ==
    /\ Ready
    /\ active' = FALSE
    /\ repaint' = active
    /\ KeepEditor
    /\ Handled(Simple("MouseUp"))
    /\ KeepBlink

\* Timer toggling the cursor for any token, re-arming for its own.
TimerTogglesAnyToken(id) ==
    /\ Ready
    /\ cursor_on' = ~cursor_on
    /\ repaint' = TRUE
    /\ IF id = cursor_timer
       THEN /\ issued < MaxTimers
            /\ cursor_timer' = issued + 1
            /\ issued' = issued + 1
       ELSE UNCHANGED <<cursor_timer, issued>>
    /\ KeepEditor
    /\ Handled(Delivered("Timer", id, FALSE))
    /\ UNCHANGED active

\* Event::Timer
Timer(id) ==
    /\ Ready
    /\ IF id = cursor_timer
       THEN /\ issued < MaxTimers
            /\ cursor_on' = ~cursor_on
            /\ repaint' = TRUE
            /\ cursor_timer' = issued + 1
            /\ issued' = issued + 1
       ELSE repaint' = FALSE /\ KeepBlink
    /\ KeepEditor
    /\ Handled(Delivered("Timer", id, FALSE))
    /\ UNCHANGED active

\* Event::Command(COPY), handled when the widget has the focus
CommandCopy(focused) ==
    /\ Ready
    /\ IF focused THEN Copy ELSE KeepEditor
    /\ repaint' = FALSE
    /\ Handled(Simple("Copy"))
    /\ UNCHANGED active
    /\ KeepBlink

\* Event::Command(CUT), handled when the widget has the focus
CommandCut(focused) ==
    /\ Ready
    /\ IF focused THEN Cut ELSE KeepEditor
    /\ repaint' = FALSE
    /\ Handled(Simple("Cut"))
    /\ UNCHANGED active
    /\ KeepBlink

\* Event::Command(RESET_BLINK)
CommandResetBlink ==
    /\ Ready
    /\ issued < MaxTimers
    /\ reset_cursor_blink
    /\ repaint' = FALSE
    /\ KeepEditor
    /\ Handled(Simple("ResetBlink"))
    /\ UNCHANGED active

\* Event::Command(PERFORM_EDIT)
CommandPerformEdit(e) ==
    /\ Ready
    /\ DoEdit(e)
    /\ repaint' = FALSE
    /\ Handled(Simple("PerformEdit"))
    /\ UNCHANGED active
    /\ KeepBlink

\* Event::Paste
EventPaste(t) ==
    /\ Ready
    /\ Paste(t)
    /\ repaint' = FALSE
    /\ Handled(Simple("Paste"))
    /\ UNCHANGED active
    /\ KeepBlink

\* Event::KeyDown
KeyDown(k) ==
    /\ Ready
    /\ issued < MaxTimers
    /\ IF k = "Tab" THEN KeepEditor ELSE Key(k)
    /\ reset_cursor_blink
    /\ repaint' = TRUE
    /\ Handled(Simple("KeyDown"))
    /\ UNCHANGED active

\* Another handler of the application stores a value into the buffer
\* before the update pass.
HostMutation ==
    /\ phase \in {"idle", "painted", "dirty"}
    /\ (\E v \in HostValues : ExternalMutation(v)) \/ ExternalRevert
    /\ repaint' = FALSE
    /\ phase' = "dirty"
    /\ event' = Simple("Other")
    /\ UNCHANGED <<old_data, active, cursor_on, cursor_timer, issued>>

\* The update pass of the host: TextBox2::update runs when the buffer
\* differs from the value of the last pass or the environment changed.
HostUpdate(env_changed, needs_rebuild) ==
    /\ phase = "dirty"
    /\ IF data # old_data \/ env_changed
       THEN Update(needs_rebuild)
       ELSE ~panicked /\ KeepEditor /\ repaint' = FALSE
    /\ old_data' = data
    /\ phase' = "idle"
    /\ event' = Simple("none")
    /\ UNCHANGED <<active, cursor_on, cursor_timer, issued>>

\* TextBox2::paint: selection_rects and, when focused with the cursor on,
\* cursor_line query the cached layout with the Selection.
Paint ==
    /\ phase = "idle"
    /\ ~panicked
    /\ phase' = "painted"
    /\ KeepEditor
    /\ UNCHANGED <<repaint, old_data, active, cursor_on, cursor_timer, issued, event>>

InitHost == Init /\ multi_line = TRUE

NextHost ==
    \/ WidgetAdded
    \/ \E f \in BOOLEAN, c \in text_positions(text), sh \in BOOLEAN : MouseDown(f, c, sh)
    \/ \E c \in text_positions(text), sh \in BOOLEAN : MouseMove(c, sh)
    \/ MouseUp
    \/ \E id \in 1..issued : Timer(id)
    \/ \E f \in BOOLEAN : CommandCopy(f)
    \/ \E f \in BOOLEAN : CommandCut(f)
    \/ CommandResetBlink
    \/ \E e \in HostActions : CommandPerformEdit(e)
    \/ \E t \in PasteTexts : EventPaste(t)
    \/ \E k \in HostKeys : KeyDown(k)
    \/ HostMutation
    \/ \E ec \in BOOLEAN, r \in BOOLEAN : HostUpdate(ec, r)
    \/ Paint

\* The widget in its host: events, then the update pass, then paint.
SpecHost == InitHost /\ [][NextHost]_vars

\* ===================================================================
\* Vocabulary of the properties
EditOps == {"do_edit", "click", "drag", "key", "paste"}

\* The call that has just returned is a do_edit of an action of type ty.
Dispatched(ty) == last'.op \in EditOps /\ last'.edit.type = ty

Fresh == ~data_is_stale(text, data)

\* Both offsets of the Selection are positions of the buffer.
SelectionInBuffer ==
    is_char_boundary(data, selection.anchor) /\ is_char_boundary(data, selection.end)

\* The buffer d without its bytes [lo, hi).
Without(d, lo, hi) == SubSeq(d, 1, lo) \o SubSeq(d, hi + 1, Len(d))

\* Start of the grapheme cluster that ends at offset c > 0 of d.
ClusterStart(d, c) == IF d[c] = "E2" THEN c - 2 ELSE c - 1

\* End of the grapheme cluster that starts at offset c < Len(d) of d.
ClusterEnd(d, c) == IF d[c + 1] = "E1" THEN c + 2 ELSE c + 1

\* -------------------------------------------------------------------
\* C1: a do_edit that finds the data stale returns without changing the
\* buffer, the Selection or the cached text, whatever the EditAction.
StaleEditIsDropped ==
    [][(last'.op \in EditOps /\ last'.stale)
          => (data' = data /\ selection' = selection /\ text' = text
              /\ ~panicked')]_vars

\* A stale Insert has been dispatched against a seeded editor.
StaleEditWitness ==
    /\ last.op = "do_edit"
    /\ last.edit.type = "Insert"
    /\ last.stale
    /\ text # None
    /\ text[1] # data

\* -------------------------------------------------------------------
\* C2: whenever the editor is not stale both offsets of the Selection lie
\* within [0, len(buffer)], so that no range handed to data.edit reaches
\* beyond the buffer.
SelectionInBounds ==
    Fresh => (selection.anchor <= Len(data) /\ selection.end <= Len(data))

\* -------------------------------------------------------------------
\* C3: when update returns the cached text equals the buffer, both offsets
\* of the Selection are within the buffer, a caret inside the buffer has
\* not moved and one outside it is at the end, a repaint was requested if
\* the editor was stale, and the edit dispatched next is not dropped.
UpdateRecovers ==
    [][/\ last'.op = "update" =>
            /\ text' = Some(data')
            /\ selection'.anchor <= Len(data') /\ selection'.end <= Len(data')
            /\ is_caret(selection) =>
                  selection' = IF selection.end <= Len(data') THEN selection
                               ELSE caret(Len(data'))
            /\ last'.stale => repaint'
       /\ (last.op = "update" /\ last'.op \in EditOps) => ~last'.stale]_vars

ForwardDeleteContract ==
    [][(Dispatched("Delete") /\ Fresh /\ SelectionInBuffer) =>
          LET c == selection.end
          IN  IF ~is_caret(selection)
              THEN /\ data' = Without(data, sel_min(selection), sel_max(selection))
                   /\ selection' = caret(sel_min(selection))
              ELSE IF c < Len(data)
              THEN /\ data' = Without(data, c, ClusterEnd(data, c))
                   /\ selection' = caret(c)
              ELSE data' = data /\ selection' = selection]_vars

\* -------------------------------------------------------------------
\* C9: Backspace on a fresh editor removes the grapheme cluster that ends
\* at a caret c > 0 and puts the caret at its start, changes nothing at
\* c = 0, and removes a selected range and puts the caret at its start.
BackwardDeleteContract ==
    [][(Dispatched("Backspace") /\ Fresh /\ SelectionInBuffer) =>
          LET c == selection.end
          IN  IF ~is_caret(selection)
              THEN /\ data' = Without(data, sel_min(selection), sel_max(selection))
                   /\ selection' = caret(sel_min(selection))
              ELSE IF c > 0
              THEN /\ data' = Without(data, ClusterStart(data, c), c)
                   /\ selection' = caret(ClusterStart(data, c))
              ELSE data' = data /\ selection' = caret(0)]_vars

\* Backspace has removed a two-byte grapheme before a caret.
BackwardDeleteWitness ==
    /\ last.op \in EditOps
    /\ last.edit.type = "Backspace"
    /\ ~last.stale
    /\ last.shape = "caret"
    /\ Len(data) + 2 = Len(text[1])
    /\ ~panicked

\* -------------------------------------------------------------------
\* C10: Insert and Paste on a fresh editor replace the selected range
\* [min, max) of the buffer by the text inserted and leave a caret at
\* min + its byte length, whichever way the selection points.
Inserted(chars) ==
    IF multi_line \/ \A i \in 1..Len(chars) : chars[i] # "\n" THEN chars
    ELSE SubSeq(chars, 1, (CHOOSE i \in 1..Len(chars) :
                              chars[i] = "\n" /\ \A j \in 1..(i - 1) : chars[j] # "\n") - 1)

InsertContract ==
    [][((Dispatched("Insert") \/ Dispatched("Paste")) /\ Fresh /\ SelectionInBuffer) =>
          LET lo == sel_min(selection)
              hi == sel_max(selection)
              t == Inserted(last'.edit.chars)
          IN  /\ data' = SubSeq(data, 1, lo) \o t \o SubSeq(data, hi + 1, Len(data))
              /\ selection' = caret(lo + Len(t))
              /\ text' = text]_vars

\* A text has replaced a range selected backwards (anchor after end).
InsertWitness ==
    /\ last.edit.type \in {"Insert", "Paste"}
    /\ last.op \in EditOps
    /\ ~last.stale
    /\ last.shape = "backward"
    /\ Len(data) < Len(text[1]) + Len(last.edit.chars)
    /\ selection.end > Len(last.edit.chars)
    /\ ~panicked

\* -------------------------------------------------------------------
\* C5: from the empty buffer seeded into the editor with the caret at 0,
\* Insert("abc"), Backspace and Move(Left) dispatched through do_edit one
\* right after the other give "abc" with the caret at 3, then "ab" with the
\* caret at 2, then the caret at 1 with the buffer still "ab".
InsertAbc == WithText("Insert", <<"a", "b", "c">>)

Did(e) == last'.op = "do_edit" /\ last'.edit = e

TraceBackToBack ==
    [][/\ (text = Some(<<>>) /\ data = <<>> /\ selection = caret(0) /\ Did(InsertAbc))
            => (data' = <<"a", "b", "c">> /\ selection' = caret(3))
       /\ (text = Some(<<>>) /\ data = <<"a", "b", "c">> /\ selection = caret(3)
             /\ last.edit = InsertAbc /\ Did(Plain("Backspace")))
            => (data' = <<"a", "b">> /\ selection' = caret(2))
       /\ (text = Some(<<>>) /\ data = <<"a", "b">> /\ selection = caret(2)
             /\ last.edit = Plain("Backspace") /\ Did(WithMovement("Move", "Left")))
            => (data' = <<"a", "b">> /\ selection' = caret(1))]_vars

\* C5 as amended: the same trace with update(buffer) run after each edit
\* that changed the buffer, as the host does.
TraceWithUpdates ==
    [][/\ (text = Some(<<>>) /\ data = <<>> /\ selection = caret(0) /\ Did(InsertAbc))
            => (data' = <<"a", "b", "c">> /\ selection' = caret(3) /\ text' = text)
       /\ (text = Some(<<>>) /\ data = <<"a", "b", "c">> /\ selection = caret(3)
             /\ last'.op = "update")
            => (text' = Some(<<"a", "b", "c">>) /\ data' = data
                /\ selection' = caret(3))
       /\ (text = Some(<<"a", "b", "c">>) /\ data = <<"a", "b", "c">>
             /\ selection = caret(3) /\ Did(Plain("Backspace")))
            => (data' = <<"a", "b">> /\ selection' = caret(2) /\ text' = text)
       /\ (text = Some(<<"a", "b", "c">>) /\ data = <<"a", "b">> /\ selection = caret(2)
             /\ last'.op = "update")
            => (text' = Some(<<"a", "b">>) /\ data' = data /\ selection' = caret(2))
       /\ (text = Some(<<"a", "b">>) /\ data = <<"a", "b">> /\ selection = caret(2)
             /\ Did(WithMovement("Move", "Left")))
            => (data' = <<"a", "b">> /\ selection' = caret(1) /\ text' = text)]_vars

\* The end of the trace: Move(Left) has been applied to "ab".
TraceWitness ==
    /\ last.op = "do_edit"
    /\ last.edit = WithMovement("Move", "Left")
    /\ ~last.stale
    /\ text = Some(<<"a", "b">>)
    /\ data = <<"a", "b">>
    /\ selection = caret(1)

\* -------------------------------------------------------------------
\* C6: on a fresh editor with a caret at c in the buffer B, inserting one
\* ASCII character and dispatching Backspace right after it restores B.
InsertA == WithText("Insert", <<"a">>)

PaintSeesConsistentSelection ==
    phase = "painted" =>
        (text # None /\ selection.anchor <= Len(text[1])
                     /\ selection.end <= Len(text[1]))

\* -------------------------------------------------------------------
\* C11: on a fresh single-line editor Insert and Paste put into the buffer
\* only the part of the text before its first line break and advance the
\* caret by the length of that part; a multi-line editor inserts the text
\* whole; no call of a single-line editor adds a line break to the buffer.
LineBreaks(d) == Cardinality({i \in 1..Len(d) : d[i] = "\n"})

\* The first n bytes of chars are what a single-line editor inserts.
TruncatedAt(chars, n) ==
    /\ \A i \in 1..n : chars[i] # "\n"
    /\ (n = Len(chars) \/ chars[n + 1] = "\n")

SingleLineTruncates ==
    [][/\ ((Dispatched("Insert") \/ Dispatched("Paste")) /\ Fresh /\ SelectionInBuffer) =>
            LET chars == last'.edit.chars
                lo == sel_min(selection)
                hi == sel_max(selection)
            IN  \E n \in 0..Len(chars) :
                   /\ IF multi_line THEN n = Len(chars) ELSE TruncatedAt(chars, n)
                   /\ data' = SubSeq(data, 1, lo) \o SubSeq(chars, 1, n)
                                 \o SubSeq(data, hi + 1, Len(data))
                   /\ selection' = caret(lo + n)
       /\ (~multi_line /\ last'.op \in EditOps \cup {"copy", "cut"}) =>
            LineBreaks(data') <= LineBreaks(data)]_vars

\* A single-line editor has inserted "ab" for "ab\ncd" into the empty buffer.
SingleLineWitness ==
    /\ ~multi_line
    /\ last.op = "do_edit"
    /\ last.edit = WithText("Insert", <<"a", "b", "\n", "c", "d">>)
    /\ ~last.stale
    /\ text = Some(<<>>)
    /\ data = <<"a", "b">>
    /\ selection = caret(2)

\* -------------------------------------------------------------------
\* C12: JumpDelete(m) and JumpBackspace(m) on a fresh editor delete, from a
\* caret at c, the range between c and the offset m leads to (the cluster
\* before c, the cluster after c, the start or the end of the buffer), and
\* with a range selection that range whatever m is; the caret lands at the
\* start of the deleted range.
JumpRange(mv, d, c) ==
    CASE mv = "Left" -> <<IF c = 0 THEN 0 ELSE ClusterStart(d, c), c>>
      [] mv = "Right" -> <<c, IF c = Len(d) THEN c ELSE ClusterEnd(d, c)>>
      [] mv = "StartOfDocument" -> <<0, c>>
      [] mv = "EndOfDocument" -> <<c, Len(d)>>

JumpDeleteContract ==
    [][((Dispatched("JumpDelete") \/ Dispatched("JumpBackspace"))
          /\ Fresh /\ SelectionInBuffer) =>
          LET r == IF is_caret(selection)
                   THEN JumpRange(last'.edit.mvmt, data, selection.end)
                   ELSE <<sel_min(selection), sel_max(selection)>>
          IN  /\ data' = Without(data, r[1], r[2])
              /\ selection' = caret(r[1])
              /\ text' = text]_vars

\* JumpBackspace(Left) has removed a two-byte cluster before a caret.
JumpDeleteWitness ==
    /\ last.op = "do_edit"
    /\ last.edit = WithMovement("JumpBackspace", "Left")
    /\ ~last.stale
    /\ last.shape = "caret"
    /\ Len(data) + 2 = Len(text[1])
    /\ ~panicked

\* -------------------------------------------------------------------
\* C13: on a fresh editor a click without shift leaves a caret at the offset
\* the layout returned, a click with shift and every drag move only the
\* active end to it; Click, Drag, Move and ModifySelection leave the buffer
\* and the cached text alone.
PointerContract ==
    [][/\ (last'.op = "click" /\ Fresh) =>
            LET c == last'.edit.column
            IN  /\ c \in text_positions(text)
                /\ selection' = IF last'.edit.shift
                                THEN [anchor |-> selection.anchor, end |-> c]
                                ELSE caret(c)
       /\ (last'.op = "drag" /\ Fresh) =>
            selection' = [anchor |-> selection.anchor, end |-> last'.edit.column]
       /\ (last'.op \in EditOps
             /\ last'.edit.type \in {"Click", "Drag", "Move", "ModifySelection"}) =>
            (data' = data /\ text' = text)]_vars

\* A drag without shift has stretched a caret into a range.
PointerWitness ==
    /\ last.op = "drag"
    /\ ~last.edit.shift
    /\ ~last.stale
    /\ last.shape = "caret"
    /\ ~is_caret(selection)

\* -------------------------------------------------------------------
\* C14: an update that finds the data not stale changes neither the
\* Selection nor the cached text, whether or not the layout needs a rebuild;
\* update requests a repaint exactly when the data was stale or the layout
\* needs a rebuild.
UpdateWhenFresh ==
    [][last'.op = "update" =>
          /\ ~last'.stale => (selection' = selection /\ text' = text /\ data' = data)
          /\ repaint' <=> (last'.stale \/ last'.rebuild)]_vars

\* A cosmetic update has left a range selection alone and asked for a
\* repaint.
UpdateWhenFreshWitness ==
    /\ last.op = "update"
    /\ ~last.stale
    /\ last.rebuild
    /\ repaint
    /\ ~is_caret(selection)

\* -------------------------------------------------------------------
\* C15: while the layout has no cached text every do_edit, click, drag, key
\* and paste finds the data stale and changes neither buffer nor Selection,
\* copy and cut hand nothing to put_string, and only set_text or update
\* gives the layout a text.
UnseededDropsAll ==
    [][text = None =>
          /\ last'.op \in EditOps =>
                (last'.stale /\ data' = data /\ selection' = selection /\ ~panicked')
          /\ last'.op \in {"copy", "cut"} =>
                (put' = None /\ data' = data /\ selection' = selection)
          /\ text' # None => last'.op \in {"set_text", "update"}]_vars

\* An Insert has been dropped by an editor that was never seeded.
UnseededWitness ==
    /\ text = None
    /\ last.op = "do_edit"
    /\ last.edit.type = "Insert"
    /\ last.stale
    /\ Len(data) > 0

\* -------------------------------------------------------------------
\* C16: do_edit never stores a text in the layout cache, and once an edit of
\* the editor has changed the buffer every do_edit, copy and cut is dropped
\* until update or set_text has run.
Calls == EditOps \cup {"copy", "cut"}

Dropped == data' = data /\ selection' = selection /\ put' = None

OwnEditDropsUntilUpdate ==
    [][/\ last'.op \in Calls => text' = text
       /\ (own_edit /\ last'.op \in Calls) => Dropped]_vars

\* C16 as amended: after an edit of the editor has changed the buffer every
\* do_edit, copy and cut is dropped for as long as the buffer differs from
\* the cached text, that is until update or set_text has run or the
\* application has stored the cached content back.
OwnEditDropsWhileDifferent ==
    [][/\ last'.op \in Calls => text' = text
       /\ (last'.op \in Calls /\ data' # data) =>
            (own_edit' /\ data_is_stale(text', data'))
       /\ (own_edit /\ last'.op \in Calls /\ text # Some(data)) => Dropped
       /\ last'.op \in {"update", "set_text"} =>
            (~own_edit' /\ ~data_is_stale(text', data'))]_vars

\* A Backspace has been dropped because the buffer holds an Insert of the
\* editor that no update has seen.
OwnEditWitness ==
    /\ own_edit
    /\ last.op = "do_edit"
    /\ last.edit.type = "Backspace"
    /\ last.stale
    /\ text # None
    /\ Len(data) > Len(text[1])

\* -------------------------------------------------------------------
\* C17: a Timer event toggles cursor_on and takes a new token exactly when
\* its token is cursor_timer, and leaves both alone otherwise; KeyDown, a
\* MouseDown without the focus flag and RESET_BLINK set cursor_on and take a
\* new token.
Delivers(name) == phase' = "dirty" /\ event'.name = name

BlinkTokens ==
    [][/\ Delivers("Timer") =>
            IF event'.token = cursor_timer
            THEN cursor_on' = ~cursor_on /\ cursor_timer' > issued
            ELSE cursor_on' = cursor_on /\ cursor_timer' = cursor_timer
       /\ (\/ Delivers("KeyDown")
           \/ Delivers("ResetBlink")
           \/ Delivers("MouseDown") /\ ~event'.focus) =>
            (cursor_on' /\ cursor_timer' > issued)]_vars

\* The timer of a token issued before the last reset has fired and has
\* been ignored.
BlinkWitness ==
    /\ phase = "dirty"
    /\ event = Delivered("Timer", 1, FALSE)
    /\ cursor_timer = 2
    /\ issued = 2
    /\ cursor_on

\* -------------------------------------------------------------------
\* C18: a MouseMove delivered while the widget is not active changes
\* neither Selection nor buffer; the widget becomes active only by a
\* MouseDown and stops being active only by a MouseUp, which always leaves
\* it not active; a MouseDown with the focus flag makes the widget active
\* without touching the Selection.
DragScoping ==
    [][/\ (Delivers("MouseMove") /\ ~active) => (selection' = selection /\ data' = data)
       /\ Delivers("MouseMove") => active' = active
       /\ Delivers("MouseUp") => ~active'
       /\ Delivers("MouseDown") =>
            (active' /\ (event'.focus => (selection' = selection /\ data' = data)))
       /\ (active' /\ ~active) => Delivers("MouseDown")
       /\ (active /\ ~active') => Delivers("MouseUp")]_vars

\* A MouseMove has arrived after the gesture ended and has left the range
\* the gesture selected.
DragScopingWitness ==
    /\ phase = "dirty"
    /\ event.name = "MouseMove"
    /\ ~active
    /\ last.op = "drag"
    /\ ~last.stale
    /\ ~is_caret(selection)

\* -------------------------------------------------------------------
\* C19: cut on a fresh editor with a range selected hands the selected text
\* to put_string, removes exactly that text and leaves a caret at the start
\* of the range; with a caret at c > 0 it hands nothing to put_string,
\* removes the grapheme cluster before c and leaves the caret at its start.
CutContract ==
    [][(last'.op = "cut" /\ Fresh /\ SelectionInBuffer) =>
          LET lo == sel_min(selection)
              hi == sel_max(selection)
          IN  IF lo < hi
              THEN /\ put' = Some(SubSeq(data, lo + 1, hi))
                   /\ data' = Without(data, lo, hi)
                   /\ selection' = caret(lo)
              ELSE hi > 0 =>
                   /\ put' = None
                   /\ data' = Without(data, ClusterStart(data, hi), hi)
                   /\ selection' = caret(ClusterStart(data, hi))]_vars

\* Cut has moved a selected two-byte character to the clipboard.
CutWitness ==
    /\ last.op = "cut"
    /\ ~last.stale
    /\ last.shape # "caret"
    /\ put = Some(<<"E1", "E2">>)
    /\ Len(data) + 2 = Len(text[1])
    /\ ~panicked

====
